---- MODULE Spec2Model ----
(***************************************************************************)
(* Model of the hospital backend's bed services (ListaService) and         *)
(* clinical document services (RecetaService, OrdenService, NotaService).  *)
(*                                                                         *)
(* A request runs in its own database session (database.py get_db:         *)
(* expire_on_commit off, autoflush off).  A handler runs without           *)
(* interruption up to its next awaited database statement, so each awaited *)
(* statement is one step; a commit writes the columns the request changed  *)
(* on the objects it loaded and makes them visible to every other session, *)
(* and the refresh that follows it is a later step that reads the row as   *)
(* it is then.  A step holds the awaited statement and the code after it   *)
(* up to the next awaited statement, clock reads included.                 *)
(*                                                                         *)
(* The services are modelled against the mapped classes and schemas of     *)
(* the repository.  ListaService names columns that models/lista.py does   *)
(* not map, and OrdenService names a relationship and payload fields that  *)
(* models/orden.py and schemas/orden.py do not have: those statements      *)
(* raise AttributeError, and the statements after them are never reached.  *)
(* crear_receta reads the unloaded collection receta.detalles of the       *)
(* header it has flushed, which the async session refuses (MissingGreenlet) *)
(* before the commit: the service persists no prescription.  The           *)
(* prescriptions and orders it works on are rows other writers of the      *)
(* database left in receta_cab and orden_cab.                              *)
(* Free-text columns that no guard reads are not part of the state.        *)
(***************************************************************************)
EXTENDS Integers, Sequences, FiniteSets, TLC

\* ---------------------------------------------------------------- bounds
NumCamas == 2
NumPacientes == 2
NumSesiones == 2
\* clock resolution: ticks of the clock per day
TicksPorDia == 2
NumMedicos == 2
NumClaves == 2
MaxNotas == 2
NumHospitalizaciones == 2
MaxDias == 8
MaxEditables == 1

\* None / SQL NULL for a timestamp, an id or a counter
NULL == 0 - 1

\* estructura_hospital.id values a caller may send
Camas == 1..NumCamas
Pacientes == 1..NumPacientes
Sesiones == 1..NumSesiones

VARIABLES
    estructura,     \* ids of the estructura_hospital rows
    ahora,          \* the clock (datetime.utcnow), in ticks
    ses,            \* per session: the request in flight and its locals
    resp,           \* per session: what its last finished request returned
    recetas,        \* receta_cab rows, committed, in id order
    ordenes,        \* orden_cab rows, committed, in id order
    notas           \* hospitalizacion_notas rows, committed, in id order

vars == <<estructura, ahora, ses, resp, recetas, ordenes, notas>>

varsCamas == <<estructura>>
varsDocs == <<recetas, ordenes, notas>>

\* ------------------------------------------------------------ sessions

SesionLibre == [pc |-> "libre", op |-> "ninguna"]

SinRespuesta == [op |-> "ninguna", resultado |-> "ninguno", etapa |-> "ninguna"]

\* What a finished request returned: `resultado` is "OK" or the exception
\* raised, `etapa` the statement that ended the request
Respuesta(op, resultado, etapa, id, de, a, actor, lineas) ==
    [op |-> op, resultado |-> resultado, etapa |-> etapa, id |-> id,
     de |-> de, a |-> a, actor |-> actor, lineas |-> lineas, fila |-> <<>>]

\* The request returns the row `fila` as its session last read it
Devolver(op, etapa, id, de, a, actor, lineas, fila) ==
    [Respuesta(op, "OK", etapa, id, de, a, actor, lineas) EXCEPT !.fila = fila]

\* The request ends with response r: the session closes
Responder(p, r) ==
    /\ ses' = [ses EXCEPT ![p] = SesionLibre]
    /\ resp' = [resp EXCEPT ![p] = r]

\* The request goes on to its next awaited statement with locals s
Continuar(p, s) ==
    /\ ses' = [ses EXCEPT ![p] = s]
    /\ resp' = [resp EXCEPT ![p] = SinRespuesta]

\* The UPDATE a commit issues for a loaded row: the columns whose assigned
\* value differs from the loaded one, on the row as it is committed now
EscribirCambios(fila, cargada, asignada) ==
    [k \in DOMAIN fila |-> IF asignada[k] # cargada[k] THEN asignada[k] ELSE fila[k]]

\* .date() / func.date(): the calendar day of a timestamp
DiaDe(t) == t \div TicksPorDia

\* ================================================================= camas

\* What a finished bed request returned
RespuestaCama(op, resultado, etapa, cama, paciente, filas) ==
    [op |-> op, resultado |-> resultado, etapa |-> etapa, cama |-> cama,
     paciente |-> paciente, filas |-> filas]

\* asignar_paciente_cama: "Validar que la cama existe" raises NotFoundError
\* for an unknown id; for a bed that exists, "Validar que la cama está
\* disponible" builds its SELECT from PacientePorCama.cama_id, which the
\* class does not have
ResultadoAsignar(c) ==
    IF c \notin estructura
    THEN <<"NotFoundError", "cama">>
    ELSE <<"AttributeError", "PacientePorCama.cama_id">>

\* POST /camas/{cama_id}/asignar
AsignarPaciente(p, c, pac) ==
    /\ ses[p].pc = "libre"
    /\ Responder(p, RespuestaCama("asignar", ResultadoAsignar(c)[1],
                                  ResultadoAsignar(c)[2], c, pac, <<>>))
    /\ UNCHANGED <<varsCamas, ahora, varsDocs>>

\* POST /camas/{cama_id}/liberar: "Buscar paciente actual en la cama"
\* builds its SELECT from PacientePorCama.cama_id
LiberarCama(p, c) ==
    /\ ses[p].pc = "libre"
    /\ Responder(p, RespuestaCama("liberar", "AttributeError",
                                  "PacientePorCama.cama_id", c, NULL, <<>>))
    /\ UNCHANGED <<varsCamas, ahora, varsDocs>>

\* POST /pacientes/{paciente_id}/cambiar-servicio: "Buscar asignación actual
\* del paciente" builds its SELECT from PacientePorCama.fecha_salida
CambiarServicio(p, pac, nc) ==
    /\ ses[p].pc = "libre"
    /\ Responder(p, RespuestaCama("cambiar_servicio", "AttributeError",
                                  "PacientePorCama.fecha_salida", nc, pac, <<>>))
    /\ UNCHANGED <<varsCamas, ahora, varsDocs>>

\* limite: int = 20
LimiteHistorial == 20

\* GET /camas/{cama_id}/historial: the SELECT is built from
\* PacientePorCama.cama_id
ObtenerHistorialCama(p, c, limite) ==
    /\ ses[p].pc = "libre"
    /\ Responder(p, RespuestaCama("historial", "AttributeError",
                                  "PacientePorCama.cama_id", c, NULL, <<>>))
    /\ UNCHANGED <<varsCamas, ahora, varsDocs>>

\* servicio / unidad filters a caller may send: none, or a name
Filtros == {NULL, 1}

\* obtener_disponibilidad_por_servicio: a filter is built from
\* EstructuraHospital.servicio or .unidad, which the class does not have;
\* without filters the SELECT runs and the grouping loop reads
\* cama.servicio of the first row; with no row the result is the empty list
ResultadoDisponibilidad(servicio, unidad) ==
    IF servicio # NULL THEN <<"AttributeError", "EstructuraHospital.servicio">>
    ELSE IF unidad # NULL THEN <<"AttributeError", "EstructuraHospital.unidad">>
    ELSE IF estructura # {} THEN <<"AttributeError", "cama.servicio">>
    ELSE <<"OK", "return">>

\* GET /camas/disponibilidad
ObtenerDisponibilidadPorServicio(p, servicio, unidad) ==
    /\ ses[p].pc = "libre"
    /\ Responder(p, RespuestaCama("disponibilidad",
                                  ResultadoDisponibilidad(servicio, unidad)[1],
                                  ResultadoDisponibilidad(servicio, unidad)[2],
                                  NULL, NULL, <<>>))
    /\ UNCHANGED <<varsCamas, ahora, varsDocs>>

\* The hospital: any set of bed rows
InitCamas ==
    /\ estructura \in SUBSET Camas
    /\ ahora = 0
    /\ ses = [p \in Sesiones |-> SesionLibre]
    /\ resp = [p \in Sesiones |-> SinRespuesta]
    /\ recetas = <<>>
    /\ ordenes = <<>>
    /\ notas = <<>>

\* Requests of several callers on the beds
NextCamas ==
    \E p \in Sesiones :
        \/ \E c \in Camas, pac \in Pacientes : AsignarPaciente(p, c, pac)
        \/ \E c \in Camas : LiberarCama(p, c)
        \/ \E pac \in Pacientes, nc \in Camas : CambiarServicio(p, pac, nc)
        \/ \E c \in Camas, l \in {1, LimiteHistorial} : ObtenerHistorialCama(p, c, l)
        \/ \E s \in Filtros, u \in Filtros : ObtenerDisponibilidadPorServicio(p, s, u)

SpecCamas == InitCamas /\ [][NextCamas]_vars

\* ==================================================== clinical documents

\* users.id of the users whose datos_profesional carries especialidad and
\* colegiatura and who are enabled and not locked
Medicos == 1..NumMedicos
\* a user with especialidad and no colegiatura
SoloEspecialidad == NumMedicos + 1
\* a user with especialidad and colegiatura who is disabled or locked
Inactivo == NumMedicos + 2
\* a user without datos_profesional
SinDatos == NumMedicos + 3
\* the users rows
Usuarios == 1..(NumMedicos + 3)
\* user ids a caller may carry: the users and one id without a row
UsuarioIds == 1..(NumMedicos + 4)

\* User.especialidad is set
Especialidad(u) == u \in Medicos \/ u = SoloEspecialidad \/ u = Inactivo
\* User.colegiatura is set
Colegiatura(u) == u \in Medicos \/ u = Inactivo
\* User.is_active: enabled and account_non_locked
IsActive(u) == u \in Usuarios /\ u # Inactivo

\* "Validar médico" of _validar_creacion_receta
EsMedicoReceta(u) == u \in Usuarios /\ Especialidad(u) /\ Colegiatura(u)
\* "Validar médico" of _validar_creacion_orden
EsMedicoOrden(u) == u \in Usuarios /\ Especialidad(u)
\* NotaService._validar_es_medico
ValidarEsMedico(u) ==
    u \in Usuarios /\ Especialidad(u) /\ Colegiatura(u) /\ IsActive(u)

\* An empty database of documents
InitDocs ==
    /\ estructura = {}
    /\ ahora = 0
    /\ ses = [p \in Sesiones |-> SesionLibre]
    /\ resp = [p \in Sesiones |-> SinRespuesta]
    /\ recetas = <<>>
    /\ ordenes = <<>>
    /\ notas = <<>>

\* ------------------------------------------------------------- recetas

\* (tipo_origen, origen_id, paciente_id) of a prescription
Claves == 1..NumClaves

EstadosReceta == {"01", "02", "03", "04"}

MaxMedicamentos == 10
AutoFirmaMax == 3
\* timedelta(days=30): the default validity of a prescription
DiasVencimiento == 30
\* a field of an update payload the caller left out (exclude_unset)
NoEnviado == 0 - 2
\* len(receta_data.detalles) a caller may send
LineasReceta == {0, AutoFirmaMax, AutoFirmaMax + 1, MaxMedicamentos + 1}
\* receta_data.fecha_vencimiento a caller may send: none, or the present
\* instant
VencimientosEnviados == {NULL, ahora}

\* A receta_cab row.  crear_receta commits none, so the rows of the table
\* are those other writers of the database left there: a prescription of
\* physician 1 for key 1, numbered the first of day 0, its three signature
\* columns set together or not at all, its fecha_vencimiento (a nullable
\* column) set or NULL
RecetaExistente(estado, firmada, fecha_vencimiento) ==
    [numero |-> <<"RX", 0, 1>>, estado |-> estado, creado_por |-> 1,
     clave |-> 1, creada |-> 0, ndet |-> 1, diagnostico_principal |-> 1,
     fecha_vencimiento |-> fecha_vencimiento,
     firmada |-> firmada,
     fecha_firma |-> IF firmada THEN 0 ELSE NULL,
     hash_firma |-> IF firmada THEN <<<<"RX", 0, 1>>, 1, 0>> ELSE <<>>]

\* The receta_cab table the service starts on: empty, or one prescription
\* that is Activa, Despachada or Vencida, signed or not, or Anulada and
\* unsigned, with an expiry 30 days after its creation or none
RecetasEnBase ==
    {<<>>} \cup
    {<<RecetaExistente(e, f, fv)>> :
        e \in {"01", "02", "03"}, f \in BOOLEAN,
        fv \in {NULL, DiasVencimiento * TicksPorDia}} \cup
    {<<RecetaExistente("04", FALSE, fv)>> :
        fv \in {NULL, DiasVencimiento * TicksPorDia}}

\* The same count over the active prescriptions only
RecetasDuplicadasSoloActivas(clave, dia) ==
    Cardinality({i \in 1..Len(recetas) :
        /\ recetas[i].clave = clave
        /\ recetas[i].creada = dia
        /\ recetas[i].estado \in {"01"}})

\* "Validar no receta duplicada mismo día": the count of the day's active
\* or dispensed prescriptions of the same origin and patient
RecetasDuplicadas(clave, dia) ==
    Cardinality({i \in 1..Len(recetas) :
        /\ recetas[i].clave = clave
        /\ recetas[i].creada = dia
        /\ recetas[i].estado \in {"01", "02"}})

\* _validar_creacion_receta: the check that raises, or "OK"
ValidarCreacionReceta(medico, clave, ndet) ==
    IF ~EsMedicoReceta(medico) THEN "medico"
    ELSE IF RecetasDuplicadas(clave, DiaDe(ahora)) > 0 THEN "duplicada"
    ELSE IF ndet > MaxMedicamentos THEN "maximo"
    ELSE IF ndet = 0 THEN "vacia"
    ELSE "OK"

\* POST /recetas: the request, _validar_creacion_receta and
\* _obtener_info_medico; _generar_numero_receta then reads the clock for
\* the date of the number and of its count.  fv is the payload's
\* fecha_vencimiento.
CrearReceta(p, medico, clave, ndet, fv) ==
    LET v == ValidarCreacionReceta(medico, clave, ndet)
        s == [pc |-> "rx_numero", op |-> "crear_receta", medico |-> medico,
              clave |-> clave, ndet |-> ndet, inicio |-> ahora, numero |-> <<>>,
              enviada |-> fv, fecha_vencimiento |-> NULL]
    IN  /\ ses[p].pc = "libre"
        /\ IF v = "OK"
           THEN Continuar(p, s)
           ELSE Responder(p, Respuesta("crear_receta", "BusinessRuleException", v,
                                       NULL, "", "", medico, ndet))
        /\ UNCHANGED <<varsCamas, ahora, varsDocs>>

\* The day's prescriptions: func.date(created_at) == utcnow().date()
RecetasDelDia(dia) == {i \in 1..Len(recetas) : recetas[i].creada = dia}

\* _generar_numero_receta: "RX" + YYYYMMDD + (count of the day + 1), 4 digits
GenerarNumeroReceta(dia) == <<"RX", dia, Cardinality(RecetasDelDia(dia)) + 1>>

\* receta_data.fecha_vencimiento or (utcnow() + timedelta(days=30))
FechaVencimiento(enviada) ==
    IF enviada # NULL THEN enviada ELSE ahora + DiasVencimiento * TicksPorDia

\* "Generar número de receta único": the count SELECT, for the day read
\* before it was awaited, and "Calcular fecha de vencimiento (30 días por
\* defecto)"
NumerarReceta(p) ==
    /\ ses[p].pc = "rx_numero"
    /\ ses' = [ses EXCEPT ![p].numero = GenerarNumeroReceta(DiaDe(ses[p].inicio)),
                          ![p].fecha_vencimiento = FechaVencimiento(ses[p].enviada),
                          ![p].pc = "rx_flush"]
    /\ UNCHANGED <<varsCamas, ahora, resp, varsDocs>>

\* _debe_auto_firmarse: len(receta.detalles) on the header crear_receta has
\* just flushed.  _crear_detalle_receta builds each RecetaDet with receta_id
\* only, so the collection of the header is unloaded, and its load is
\* refused by the async session
DebeAutoFirmarse == <<"MissingGreenlet", "receta.detalles">>

\* db.add(db_receta); await db.flush(): the INSERT, checked against the
\* unique index on numero_receta.  It waits while another session holds an
\* uncommitted row with the same number.  The detail lines are added and
\* _debe_auto_firmarse raises: the request is left to close its session.
InsertarReceta(p) ==
    /\ ses[p].pc = "rx_flush"
    /\ ~ \E q \in Sesiones \ {p} :
            ses[q].pc = "rx_cerrar" /\ ses[q].numero = ses[p].numero
    /\ IF \E i \in 1..Len(recetas) : recetas[i].numero = ses[p].numero
       THEN Responder(p, Respuesta("crear_receta", "IntegrityError", "numero_receta",
                                   NULL, "", "", ses[p].medico, ses[p].ndet))
       ELSE /\ ses' = [ses EXCEPT ![p].pc = "rx_cerrar"]
            /\ UNCHANGED resp
    /\ UNCHANGED <<varsCamas, ahora, varsDocs>>

\* get_db: await session.close() after the exception of crear_receta: the
\* flushed row is rolled back and the request answers with the exception
CerrarSesion(p) ==
    /\ ses[p].pc = "rx_cerrar"
    /\ Responder(p, Respuesta("crear_receta", DebeAutoFirmarse[1], DebeAutoFirmarse[2],
                              NULL, "", "", ses[p].medico, ses[p].ndet))
    /\ UNCHANGED <<varsCamas, ahora, varsDocs>>

\* obtener_receta_por_id finds a row
ExisteReceta(id) == id \in 1..Len(recetas)

\* transiciones_validas.get(receta.estado, [])
TransicionesReceta(estado) ==
    CASE estado = "01" -> {"02", "04"}
      [] estado = "02" -> {"04"}
      [] estado = "03" -> {"04"}
      [] OTHER -> {}

\* RecetaService._validar_cambio_estado: the check that rejects, or "OK"
ValidarCambioEstadoReceta(receta, nuevo_estado, medico_id) ==
    IF receta.creado_por # medico_id THEN "creador"
    ELSE IF nuevo_estado \notin TransicionesReceta(receta.estado) THEN "transicion"
    ELSE "OK"

\* cambiar_estado_receta without "Si se anula, limpiar firma"
AplicarEstadoRecetaSinLimpiar(receta, nuevo_estado) ==
    [receta EXCEPT !.estado = nuevo_estado]

\* receta.estado = nuevo_estado and "Si se anula, limpiar firma"
AplicarEstadoReceta(receta, nuevo_estado) ==
    IF nuevo_estado = "04"
    THEN [receta EXCEPT !.estado = nuevo_estado, !.firmada = FALSE,
                        !.fecha_firma = NULL, !.hash_firma = <<>>]
    ELSE [receta EXCEPT !.estado = nuevo_estado]

\* PUT /recetas/{receta_id}/estado: obtener_receta_por_id (the SELECT),
\* _validar_cambio_estado on the loaded row and the assignments
CambiarEstadoReceta(p, id, nuevo_estado, medico) ==
    /\ ses[p].pc = "libre"
    /\ IF ~ExisteReceta(id)
       THEN Responder(p, Respuesta("cambiar_estado_receta", "NotFoundError", "buscar",
                                   id, "", nuevo_estado, medico, NULL))
       ELSE LET r == recetas[id]
                v == ValidarCambioEstadoReceta(r, nuevo_estado, medico)
            IN  IF v # "OK"
                THEN Responder(p, Respuesta("cambiar_estado_receta",
                                   "BusinessRuleException", v,
                                   id, r.estado, nuevo_estado, medico, NULL))
                ELSE Continuar(p, [pc |-> "rx_guardar", op |-> "cambiar_estado_receta",
                                   id |-> id, medico |-> medico, cargada |-> r,
                                   asignada |-> AplicarEstadoReceta(r, nuevo_estado)])
    /\ UNCHANGED <<varsCamas, ahora, varsDocs>>

\* _validar_modificacion_receta: the check that rejects, "TypeError", or
\* "OK".  fecha_vencimiento is a DateTime(timezone=True) column, loaded with
\* its time zone, and the limit fecha_vencimiento - timedelta(days=1) is
\* compared with datetime.utcnow(), which has none: the comparison raises
\* TypeError for every row whose fecha_vencimiento is set; a row without
\* one skips the comparison.
ValidarModificacionReceta(receta, medico_id) ==
    IF receta.creado_por # medico_id THEN "creador"
    ELSE IF receta.estado # "01" THEN "estado"
    ELSE IF receta.fecha_vencimiento # NULL THEN "TypeError"
    ELSE "OK"

\* RecetaCabUpdate payloads a caller may send: a new diagnosis or none, a
\* new expiry (the present instant) or none
DatosReceta ==
    [diagnostico_principal : {NoEnviado, 2}, fecha_vencimiento : {NoEnviado, ahora}]

\* "Actualizar campos": setattr for every field the payload carries
AplicarDatosReceta(receta, datos) ==
    [receta EXCEPT
        !.diagnostico_principal =
            IF datos.diagnostico_principal # NoEnviado
            THEN datos.diagnostico_principal ELSE @,
        !.fecha_vencimiento =
            IF datos.fecha_vencimiento # NoEnviado
            THEN datos.fecha_vencimiento ELSE @]

\* PUT /recetas/{receta_id}: obtener_receta_por_id (the SELECT),
\* _validar_modificacion_receta on the loaded row and the assignments
ActualizarReceta(p, id, datos, medico) ==
    /\ ses[p].pc = "libre"
    /\ IF ~ExisteReceta(id)
       THEN Responder(p, Respuesta("actualizar_receta", "NotFoundError", "buscar",
                                   id, "", "", medico, NULL))
       ELSE LET r == recetas[id]
                v == ValidarModificacionReceta(r, medico)
            IN  IF v # "OK"
                THEN Responder(p, Respuesta("actualizar_receta",
                                   IF v = "TypeError"
                                   THEN "TypeError" ELSE "BusinessRuleException",
                                   IF v = "TypeError" THEN "vencimiento" ELSE v,
                                   id, r.estado, r.estado, medico, NULL))
                ELSE Continuar(p, [pc |-> "rx_guardar", op |-> "actualizar_receta",
                                   id |-> id, medico |-> medico, cargada |-> r,
                                   asignada |-> AplicarDatosReceta(r, datos)])
    /\ UNCHANGED <<varsCamas, ahora, varsDocs>>

\* await db.commit() of actualizar_receta and cambiar_estado_receta: the
\* UPDATE of the columns the request changed; the request is still in flight
GuardarReceta(p) ==
    LET s == ses[p]
    IN  /\ s.pc = "rx_guardar"
        /\ recetas' = [recetas EXCEPT
                          ![s.id] = EscribirCambios(@, s.cargada, s.asignada)]
        /\ ses' = [ses EXCEPT ![p] =
                      [pc |-> "rx_refrescar", op |-> s.op, id |-> s.id,
                       medico |-> s.medico, de |-> s.cargada.estado,
                       a |-> s.asignada.estado]]
        /\ UNCHANGED <<varsCamas, ahora, resp, ordenes, notas>>

\* await db.refresh(receta) of actualizar_receta and cambiar_estado_receta:
\* the row as it is committed now is returned
RefrescarReceta(p) ==
    LET s == ses[p]
    IN  /\ s.pc = "rx_refrescar"
        /\ Responder(p, Devolver(s.op, "refresh", s.id, s.de, s.a, s.medico, NULL,
                                 recetas[s.id]))
        /\ UNCHANGED <<varsCamas, ahora, varsDocs>>

\* The statements of one POST /recetas request
PasoCrearReceta(p) ==
    \/ \E m \in UsuarioIds, k \in Claves, n \in LineasReceta, fv \in VencimientosEnviados :
            CrearReceta(p, m, k, n, fv)
    \/ NumerarReceta(p)
    \/ InsertarReceta(p)
    \/ CerrarSesion(p)

\* Several callers issuing prescriptions, their statements interleaved
NextRecetaCrear == \E p \in Sesiones : PasoCrearReceta(p)

SpecRecetaCrear == InitDocs /\ [][NextRecetaCrear]_vars

\* The documents the service starts on: the prescriptions of RecetasEnBase
InitRecetas ==
    /\ estructura = {}
    /\ ahora = 0
    /\ ses = [p \in Sesiones |-> SesionLibre]
    /\ resp = [p \in Sesiones |-> SinRespuesta]
    /\ recetas \in RecetasEnBase
    /\ ordenes = <<>>
    /\ notas = <<>>

\* Several callers issuing prescriptions and editing and moving the one of
\* the table, their statements interleaved
NextReceta ==
    \E p \in Sesiones :
        \/ \E m \in Medicos, k \in Claves, n \in LineasReceta, fv \in VencimientosEnviados :
                CrearReceta(p, m, k, n, fv)
        \/ NumerarReceta(p)
        \/ InsertarReceta(p)
        \/ CerrarSesion(p)
        \/ \E id \in 1..MaxEditables, d \in DatosReceta, m \in Medicos :
                ActualizarReceta(p, id, d, m)
        \/ \E id \in 1..MaxEditables, e \in EstadosReceta, m \in Medicos :
                CambiarEstadoReceta(p, id, e, m)
        \/ GuardarReceta(p)
        \/ RefrescarReceta(p)

SpecReceta == InitRecetas /\ [][NextReceta]_vars

\* -------------------------------------------------------------- ordenes

EstadosOrden == {"01", "02", "03", "04", "05"}

MaxExamenes == 20
\* len of the exam list a caller may send
LineasOrden == {0, 1, MaxExamenes, MaxExamenes + 1}

\* An orden_cab row: OrdenService cannot insert one (crear_orden fails
\* before its INSERT), so the rows of the table are those other writers of
\* the database left there
OrdenExistente(estado) ==
    [numero |-> <<"LAB", 0, 1>>, estado |-> estado, creado_por |-> 1, creada |-> 0]

\* The orden_cab table the service starts on: empty, or one order that is
\* Pendiente or Programada
OrdenesEnBase == {<<>>} \cup {<<OrdenExistente(e)>> : e \in {"01", "02"}}

\* _validar_creacion_orden: "Validar médico" raises BusinessRuleException;
\* for a physician the next statement reads orden_data.detalles, a field
\* OrdenCabCreate does not have (its list is `examenes`)
ValidarCreacionOrden(medico) ==
    IF ~EsMedicoOrden(medico)
    THEN <<"BusinessRuleException", "medico">>
    ELSE <<"AttributeError", "orden_data.detalles">>

\* POST /ordenes: crear_orden ends in _validar_creacion_orden
CrearOrden(p, medico, nexamenes) ==
    /\ ses[p].pc = "libre"
    /\ Responder(p, Respuesta("crear_orden", ValidarCreacionOrden(medico)[1],
                              ValidarCreacionOrden(medico)[2],
                              NULL, "", "", medico, nexamenes))
    /\ UNCHANGED <<varsCamas, ahora, varsDocs>>

\* obtener_orden_por_id: the SELECT is built with
\* selectinload(OrdenCab.detalles), a relationship OrdenCab does not have
\* (its lines are `examenes`), before any row is read
ObtenerOrdenPorId(id) == <<"AttributeError", "OrdenCab.detalles">>

\* PUT /ordenes/{orden_id}: actualizar_orden ends in obtener_orden_por_id
ActualizarOrden(p, id, medico) ==
    /\ ses[p].pc = "libre"
    /\ Responder(p, Respuesta("actualizar_orden", ObtenerOrdenPorId(id)[1],
                              ObtenerOrdenPorId(id)[2], id, "", "", medico, NULL))
    /\ UNCHANGED <<varsCamas, ahora, varsDocs>>

\* PUT /ordenes/{orden_id}/estado: cambiar_estado_orden ends in
\* obtener_orden_por_id
CambiarEstadoOrden(p, id, nuevo_estado, medico) ==
    /\ ses[p].pc = "libre"
    /\ Responder(p, Respuesta("cambiar_estado_orden", ObtenerOrdenPorId(id)[1],
                              ObtenerOrdenPorId(id)[2], id, "", nuevo_estado,
                              medico, NULL))
    /\ UNCHANGED <<varsCamas, ahora, varsDocs>>

\* ---------------------------------------------------------------- notas

Hospitalizaciones == 1..NumHospitalizaciones

\* timedelta(days=7)
DiasSinActividad == 7

\* the POST /notas requests that have not committed their row yet
CreandoNota == {q \in Sesiones : ses[q].pc = "nota_commit"}
HayCupoNotas == Len(notas) + Cardinality(CreandoNota) < MaxNotas

\* puede_crear_nota: the count of the physician's drafts of the hospitalization
NotasBorrador(medico, hosp) ==
    Cardinality({i \in 1..Len(notas) :
        /\ notas[i].creado_por = medico
        /\ notas[i].hospitalizacion_id = hosp
        /\ notas[i].estado = "BORRADOR"})

\* puede_crear_nota: why the note cannot be created, or "OK"
PuedeCrearNota(medico, hosp) ==
    IF ~ValidarEsMedico(medico) THEN "medico"
    ELSE IF NotasBorrador(medico, hosp) # 0 THEN "borrador"
    ELSE "OK"

\* The hospitalizacion_notas row crear_nota commits; creado_en is the
\* clock read when the object was built
NuevaNota(medico, hosp, creado_en) ==
    [hospitalizacion_id |-> hosp, estado |-> "BORRADOR", creado_por |-> medico,
     firmada |-> FALSE, creado_en |-> creado_en, actualizado_en |-> NULL,
     finalizado_en |-> NULL]

\* The rows the UPDATE of _auto_limpiar_borradores_antiguos matches: the
\* physician's drafts with actualizado_en before fecha_limite (a NULL
\* actualizado_en matches no comparison)
BorradoresAntiguos(filas, medico, fecha_limite) ==
    {i \in 1..Len(filas) :
        /\ filas[i].creado_por = medico
        /\ filas[i].estado = "BORRADOR"
        /\ filas[i].actualizado_en # NULL
        /\ filas[i].actualizado_en < fecha_limite}

\* _auto_limpiar_borradores_antiguos: values(estado="ELIMINADA") on the
\* matched rows; onupdate stamps actualizado_en with SQL now(), the start
\* of the transaction
AutoLimpiarBorradoresAntiguos(filas, marcadas, inicio_tx) ==
    [i \in 1..Len(filas) |->
        IF i \in marcadas
        THEN [filas[i] EXCEPT !.estado = "ELIMINADA", !.actualizado_en = inicio_tx]
        ELSE filas[i]]

\* POST /notas: puede_crear_nota (the count SELECT), _obtener_info_medico
\* and the new object with creado_en=datetime.utcnow()
CrearNota(p, medico, hosp) ==
    LET v == PuedeCrearNota(medico, hosp)
    IN  /\ ses[p].pc = "libre"
        /\ HayCupoNotas
        /\ IF v = "OK"
           THEN Continuar(p, [pc |-> "nota_commit", op |-> "crear_nota",
                              medico |-> medico, hosp |-> hosp, creado_en |-> ahora])
           ELSE Responder(p, Respuesta("crear_nota", "BusinessRuleException", v,
                                       NULL, "", "", medico, NULL))
        /\ UNCHANGED <<varsCamas, ahora, varsDocs>>

\* db.add(db_nota); await db.commit(): the row is visible to every session
\* from here on
InsertarNota(p) ==
    LET s == ses[p]
    IN  /\ s.pc = "nota_commit"
        /\ notas' = Append(notas, NuevaNota(s.medico, s.hosp, s.creado_en))
        /\ ses' = [ses EXCEPT ![p] =
                      [pc |-> "nota_refresh", op |-> "crear_nota",
                       medico |-> s.medico, id |-> Len(notas) + 1]]
        /\ UNCHANGED <<varsCamas, ahora, resp, recetas, ordenes>>

\* What is left at the id of a note after db.delete(nota): ids are not
\* reused, and obtener_nota_por_id finds no row
NotaEliminada ==
    [hospitalizacion_id |-> NULL, estado |-> "SIN_FILA", creado_por |-> NULL,
     firmada |-> FALSE, creado_en |-> NULL, actualizado_en |-> NULL,
     finalizado_en |-> NULL]

\* await db.refresh(db_nota) of crear_nota, which opens the transaction of
\* the cleaning: a row deleted since the commit cannot be refreshed
\* (InvalidRequestError).  _auto_limpiar_borradores_antiguos then computes
\* fecha_limite = utcnow() - timedelta(days=7).
RefrescarNotaCreada(p) ==
    LET s == ses[p]
    IN  /\ s.pc = "nota_refresh"
        /\ IF notas[s.id] = NotaEliminada
           THEN Responder(p, Respuesta("crear_nota", "InvalidRequestError", "refresh",
                                       s.id, "", "BORRADOR", s.medico, NULL))
           ELSE /\ ses' = [ses EXCEPT ![p] =
                             [pc |-> "nota_limpiar", op |-> "crear_nota",
                              medico |-> s.medico, id |-> s.id, leida |-> notas[s.id],
                              fecha_limite |-> ahora - DiasSinActividad * TicksPorDia,
                              inicio_tx |-> ahora]]
                /\ UNCHANGED resp
        /\ UNCHANGED <<varsCamas, ahora, varsDocs>>

\* a row another session has updated and not committed yet: a statement
\* that writes it waits for that commit
Bloqueada(p, i) ==
    \E q \in Sesiones \ {p} : ses[q].pc = "nota_limpiado" /\ i \in ses[q].marcadas

\* The session matches the UPDATE's criteria on the note it holds, in
\* Python: creado_por and estado, then actualizado_en < fecha_limite, a
\* comparison of the time-zone-aware column value with the naive
\* fecha_limite that raises TypeError when actualizado_en is set
SincronizarSesion(leida) ==
    IF leida.estado = "BORRADOR" /\ leida.actualizado_en # NULL
    THEN "TypeError" ELSE "OK"

\* await db.execute(update(...)) of _auto_limpiar_borradores_antiguos: the
\* UPDATE picks its rows, and the session synchronizes the note it holds
LimpiarNota(p) ==
    LET s == ses[p]
        marcadas == BorradoresAntiguos(notas, s.medico, s.fecha_limite)
    IN  /\ s.pc = "nota_limpiar"
        /\ \A i \in marcadas : ~Bloqueada(p, i)
        /\ ses' = [ses EXCEPT ![p] =
                      [pc |-> "nota_limpiado", op |-> "crear_nota",
                       medico |-> s.medico, id |-> s.id, leida |-> s.leida,
                       marcadas |-> marcadas, inicio_tx |-> s.inicio_tx,
                       sincronizada |-> SincronizarSesion(s.leida)]]
        /\ UNCHANGED <<varsCamas, ahora, resp, varsDocs>>

\* await db.commit() of _auto_limpiar_borradores_antiguos, and the note is
\* returned as the refresh read it; after the TypeError, the rollback of
\* the closing session
ConfirmarLimpieza(p) ==
    LET s == ses[p]
    IN  /\ s.pc = "nota_limpiado"
        /\ IF s.sincronizada = "OK"
           THEN /\ notas' = AutoLimpiarBorradoresAntiguos(notas, s.marcadas, s.inicio_tx)
                /\ Responder(p, Devolver("crear_nota", "commit", s.id, "", "BORRADOR",
                                         s.medico, NULL, s.leida))
           ELSE /\ UNCHANGED notas
                /\ Responder(p, Respuesta("crear_nota", s.sincronizada, "limpiar",
                                          s.id, "", "BORRADOR", s.medico, NULL))
        /\ UNCHANGED <<varsCamas, ahora, recetas, ordenes>>

\* obtener_nota_por_id returns a row
ExisteNota(id) == id \in 1..Len(notas) /\ notas[id] # NotaEliminada

\* _validar_permisos_edicion: the exception it raises, or "OK"
ValidarPermisosEdicion(nota, medico_id) ==
    IF nota.creado_por # medico_id THEN "MedicoPermissionException"
    ELSE IF nota.estado # "BORRADOR" THEN "BusinessRuleException"
    ELSE IF nota.firmada THEN "BusinessRuleException"
    ELSE "OK"

\* finalizar_nota: the exception it raises, or "OK"
ValidarFinalizacion(nota, medico_id) ==
    IF nota.creado_por # medico_id THEN "MedicoPermissionException"
    ELSE IF nota.estado # "BORRADOR" THEN "BusinessRuleException"
    ELSE "OK"

\* eliminar_nota: the exception it raises, or "OK"
ValidarEliminacion(nota, medico_id) ==
    IF nota.creado_por # medico_id THEN "MedicoPermissionException"
    ELSE IF nota.estado = "FINALIZADA" /\ nota.firmada THEN "BusinessRuleException"
    ELSE "OK"

\* obtener_nota_por_id (the SELECT) and the checks of a request on a note:
\* NotFoundError, the exception v of the check, or the request goes on to
\* its commit with the loaded row and the assignments made on it
CargarNota(p, op, id, a, medico, v, asignada, pc) ==
    IF ~ExisteNota(id)
    THEN Responder(p, Respuesta(op, "NotFoundError", "buscar", id, "", a, medico, NULL))
    ELSE IF v # "OK"
    THEN Responder(p, Respuesta(op, v,
                       IF notas[id].creado_por # medico THEN "creador" ELSE "estado",
                       id, notas[id].estado, a, medico, NULL))
    ELSE Continuar(p, [pc |-> pc, op |-> op, id |-> id, medico |-> medico,
                       cargada |-> notas[id], asignada |-> asignada])

\* PUT /notas/{nota_id}: the SELECT, _validar_permisos_edicion and
\* nota.actualizado_en = datetime.utcnow()
ActualizarNota(p, id, medico) ==
    /\ ses[p].pc = "libre"
    /\ IF ExisteNota(id)
       THEN CargarNota(p, "actualizar_nota", id, notas[id].estado, medico,
                       ValidarPermisosEdicion(notas[id], medico),
                       [notas[id] EXCEPT !.actualizado_en = ahora], "nota_guardar")
       ELSE CargarNota(p, "actualizar_nota", id, "", medico, "OK", <<>>, "nota_guardar")
    /\ UNCHANGED <<varsCamas, ahora, varsDocs>>

\* NotaService.finalizar_nota (borrador -> finalizada): the SELECT, the
\* checks and the assignments
FinalizarNota(p, id, medico) ==
    /\ ses[p].pc = "libre"
    /\ IF ExisteNota(id)
       THEN CargarNota(p, "finalizar_nota", id, "FINALIZADA", medico,
                       ValidarFinalizacion(notas[id], medico),
                       [notas[id] EXCEPT !.estado = "FINALIZADA",
                                         !.finalizado_en = ahora,
                                         !.actualizado_en = ahora], "nota_guardar")
       ELSE CargarNota(p, "finalizar_nota", id, "FINALIZADA", medico, "OK", <<>>,
                       "nota_guardar")
    /\ UNCHANGED <<varsCamas, ahora, varsDocs>>

\* The UPDATE the commit of actualizar_nota or finalizar_nota issues:
\* actualizado_en is always in it, since the utcnow() assigned to it never
\* equals the loaded value
EscribirCambiosNota(fila, cargada, asignada) ==
    [EscribirCambios(fila, cargada, asignada) EXCEPT
        !.actualizado_en = asignada.actualizado_en]

\* await db.commit() of actualizar_nota and finalizar_nota.  When the row
\* has been deleted since it was loaded the UPDATE matches no row
\* (StaleDataError); otherwise the request is still in flight.
GuardarNota(p) ==
    LET s == ses[p]
    IN  /\ s.pc = "nota_guardar"
        /\ ~Bloqueada(p, s.id)
        /\ IF notas[s.id] = NotaEliminada
           THEN /\ UNCHANGED notas
                /\ Responder(p, Respuesta(s.op, "StaleDataError", "commit", s.id,
                                          s.cargada.estado, s.asignada.estado,
                                          s.medico, NULL))
           ELSE /\ notas' = [notas EXCEPT
                                ![s.id] = EscribirCambiosNota(@, s.cargada, s.asignada)]
                /\ ses' = [ses EXCEPT ![p] =
                              [pc |-> "nota_refrescar", op |-> s.op, id |-> s.id,
                               medico |-> s.medico, de |-> s.cargada.estado,
                               a |-> s.asignada.estado]]
                /\ UNCHANGED resp
        /\ UNCHANGED <<varsCamas, ahora, recetas, ordenes>>

\* await db.refresh(nota) of actualizar_nota and finalizar_nota: the row as
\* it is committed now is returned; a row deleted since the commit cannot
\* be refreshed (InvalidRequestError)
RefrescarNota(p) ==
    LET s == ses[p]
    IN  /\ s.pc = "nota_refrescar"
        /\ IF notas[s.id] = NotaEliminada
           THEN Responder(p, Respuesta(s.op, "InvalidRequestError", "refresh", s.id,
                                       s.de, s.a, s.medico, NULL))
           ELSE Responder(p, Devolver(s.op, "refresh", s.id, s.de, s.a, s.medico,
                                      NULL, notas[s.id]))
        /\ UNCHANGED <<varsCamas, ahora, varsDocs>>

\* NotaService.eliminar_nota: the SELECT, the checks and db.delete(nota)
EliminarNota(p, id, medico) ==
    /\ ses[p].pc = "libre"
    /\ IF ExisteNota(id)
       THEN CargarNota(p, "eliminar_nota", id, "", medico,
                       ValidarEliminacion(notas[id], medico), notas[id], "nota_borrar")
       ELSE CargarNota(p, "eliminar_nota", id, "", medico, "OK", <<>>, "nota_borrar")
    /\ UNCHANGED <<varsCamas, ahora, varsDocs>>

\* await db.commit() of eliminar_nota: the DELETE by primary key (a row
\* already gone gives a warning, not an error); True is returned
BorrarNota(p) ==
    LET s == ses[p]
    IN  /\ s.pc = "nota_borrar"
        /\ ~Bloqueada(p, s.id)
        /\ notas' = [notas EXCEPT ![s.id] = NotaEliminada]
        /\ Responder(p, Respuesta("eliminar_nota", "OK", "commit", s.id,
                                  s.cargada.estado, "", s.medico, NULL))
        /\ UNCHANGED <<varsCamas, ahora, recetas, ordenes>>

\* datetime.utcnow() a day later
PasarDia ==
    /\ DiaDe(ahora) < MaxDias
    /\ ahora' = ahora + TicksPorDia
    /\ UNCHANGED <<varsCamas, ses, resp, varsDocs>>

\* One caller at a time writing notes, over several days
NextNota ==
    \/ \E m \in UsuarioIds, h \in Hospitalizaciones : CrearNota(1, m, h)
    \/ InsertarNota(1)
    \/ RefrescarNotaCreada(1)
    \/ LimpiarNota(1)
    \/ ConfirmarLimpieza(1)
    \/ \E id \in 1..MaxNotas, m \in Medicos : ActualizarNota(1, id, m)
    \/ \E id \in 1..MaxNotas, m \in Medicos : FinalizarNota(1, id, m)
    \/ GuardarNota(1)
    \/ RefrescarNota(1)
    \/ PasarDia

SpecNota == InitDocs /\ [][NextNota]_vars

\* Several callers writing, finalizing and deleting notes on one day, their
\* statements interleaved
NextNotaConcurrente ==
    \E p \in Sesiones :
        \/ \E m \in Medicos, h \in Hospitalizaciones : CrearNota(p, m, h)
        \/ InsertarNota(p)
        \/ RefrescarNotaCreada(p)
        \/ LimpiarNota(p)
        \/ ConfirmarLimpieza(p)
        \/ \E id \in 1..MaxNotas, m \in Medicos : ActualizarNota(p, id, m)
        \/ \E id \in 1..MaxNotas, m \in Medicos : FinalizarNota(p, id, m)
        \/ GuardarNota(p)
        \/ RefrescarNota(p)
        \/ \E id \in 1..MaxNotas, m \in Medicos : EliminarNota(p, id, m)
        \/ BorrarNota(p)

SpecNotaConcurrente == InitDocs /\ [][NextNotaConcurrente]_vars

\* ------------------------------------------- the three documents together

\* The documents the service starts on: no note, the prescriptions of
\* RecetasEnBase and the orders of OrdenesEnBase
InitEdicion ==
    /\ estructura = {}
    /\ ahora = 0
    /\ ses = [p \in Sesiones |-> SesionLibre]
    /\ resp = [p \in Sesiones |-> SinRespuesta]
    /\ recetas \in RecetasEnBase
    /\ ordenes \in OrdenesEnBase
    /\ notas = <<>>

\* One caller at a time creating, editing and moving documents of the
\* three types, at most MaxEditables note
NextEdicion ==
    \/ \E m \in Medicos, k \in Claves, n \in LineasReceta, fv \in VencimientosEnviados :
            CrearReceta(1, m, k, n, fv)
    \/ NumerarReceta(1)
    \/ InsertarReceta(1)
    \/ CerrarSesion(1)
    \/ \E id \in 1..MaxEditables, d \in DatosReceta, m \in Medicos :
            ActualizarReceta(1, id, d, m)
    \/ \E id \in 1..MaxEditables, e \in EstadosReceta, m \in Medicos :
            CambiarEstadoReceta(1, id, e, m)
    \/ GuardarReceta(1)
    \/ RefrescarReceta(1)
    \/ \E m \in UsuarioIds, n \in LineasOrden : CrearOrden(1, m, n)
    \/ \E id \in 1..MaxEditables, m \in Medicos : ActualizarOrden(1, id, m)
    \/ \E id \in 1..MaxEditables, e \in EstadosOrden, m \in Medicos :
            CambiarEstadoOrden(1, id, e, m)
    \/ \E m \in Medicos : Len(notas) < MaxEditables /\ CrearNota(1, m, 1)
    \/ InsertarNota(1)
    \/ RefrescarNotaCreada(1)
    \/ LimpiarNota(1)
    \/ ConfirmarLimpieza(1)
    \/ \E id \in 1..MaxEditables, m \in Medicos : ActualizarNota(1, id, m)
    \/ \E id \in 1..MaxEditables, m \in Medicos : FinalizarNota(1, id, m)
    \/ GuardarNota(1)
    \/ RefrescarNota(1)

SpecEdicion == InitEdicion /\ [][NextEdicion]_vars

\* ================================================================ claims

\* ----------------------------------------------------------------- camas

\* C14: a discharge of a bed with no open ledger entry (the service has
\* written none) is answered with NotFoundError and changes nothing.
C14_LiberarSinEntradaAbierta ==
    [][\A p \in Sesiones, c \in Camas :
        LiberarCama(p, c) =>
            /\ resp'[p].resultado = "NotFoundError"
            /\ UNCHANGED varsCamas]_vars

\* C18: on a bed of the registry without history, the admit succeeds, the
\* discharge that follows it succeeds, and the history read that follows
\* the discharge returns exactly one entry.
C18_IdaYVuelta ==
    [][\A p \in Sesiones, c \in estructura :
        /\ \A pac \in Pacientes :
              AsignarPaciente(p, c, pac) => resp'[p].resultado = "OK"
        /\ (/\ resp[p].op = "asignar" /\ resp[p].resultado = "OK"
            /\ resp[p].cama = c /\ LiberarCama(p, c))
              => resp'[p].resultado = "OK"
        /\ (/\ resp[p].op = "liberar" /\ resp[p].resultado = "OK"
            /\ resp[p].cama = c /\ ObtenerHistorialCama(p, c, 1))
              => (resp'[p].resultado = "OK" /\ Len(resp'[p].filas) = 1)]_vars

\* C23: an occupancy statistics request over a registry that has beds is
\* answered with the statistics of its groups, at least one.
C23_DisponibilidadSegunLedger ==
    [][\A p \in Sesiones, s \in Filtros, u \in Filtros :
        (estructura # {} /\ ObtenerDisponibilidadPorServicio(p, s, u)) =>
            /\ resp'[p].resultado = "OK"
            /\ (s = NULL /\ u = NULL) => Len(resp'[p].filas) >= 1]_vars

\* C25: a transfer of a patient with no open ledger entry (the service has
\* written none) is answered with NotFoundError and changes nothing.
C25_TrasladoSinEntradaAbierta ==
    [][\A p \in Sesiones, pac \in Pacientes, nc \in Camas :
        CambiarServicio(p, pac, nc) =>
            /\ resp'[p].resultado = "NotFoundError"
            /\ UNCHANGED varsCamas]_vars

\* --------------------------------------------------------------- recetas

\* C6: concurrent create calls of one day never leave two creators holding
\* the same document number, the persisted numbers are pairwise distinct,
\* and none of the creates fails on its number.
C6_NumerosDistintos ==
    /\ \A i, j \in 1..Len(recetas) : i # j => recetas[i].numero # recetas[j].numero
    /\ \A p, q \in Sesiones :
          (p # q /\ ses[p].pc \in {"rx_flush", "rx_cerrar"}
                 /\ ses[q].pc \in {"rx_flush", "rx_cerrar"})
              => ses[p].numero # ses[q].numero
    /\ \A p \in Sesiones : resp[p].resultado # "IntegrityError"

\* The step answers a cambiar_estado_receta request made by the author of
\* the prescription
RespondeCambioReceta(p) ==
    /\ resp'[p] # resp[p]
    /\ resp'[p].op = "cambiar_estado_receta"
    /\ resp'[p].resultado # "NotFoundError"
    /\ resp'[p].actor = recetas[resp'[p].id].creado_por

\* The step is the SELECT and the check of a cambiar_estado_receta request
\* that goes on to its commit
AceptaCambioReceta(p) ==
    /\ ses[p].pc = "libre"
    /\ ses'[p].pc = "rx_guardar"
    /\ ses'[p].op = "cambiar_estado_receta"

\* The step is the commit of a cambiar_estado_receta request
GuardaCambioReceta(p) ==
    /\ ses[p].pc = "rx_guardar"
    /\ ses[p].op = "cambiar_estado_receta"
    /\ ses'[p].pc # "rx_guardar"

\* Every transition of a prescription asked by its author follows
\* `aristas`: a pair outside them is rejected as an invalid transition and
\* nothing is written; a pair in them is accepted, its commit moves the
\* prescription along an edge to the status asked for, and the request is
\* answered OK
ConformeReceta(aristas) ==
    \A p \in Sesiones :
        /\ (RespondeCambioReceta(p) /\ resp'[p].resultado # "OK") =>
                /\ <<resp'[p].de, resp'[p].a>> \notin aristas
                /\ resp'[p].resultado = "BusinessRuleException"
                /\ resp'[p].etapa = "transicion"
                /\ recetas' = recetas
        /\ AceptaCambioReceta(p) =>
                /\ <<ses'[p].cargada.estado, ses'[p].asignada.estado>> \in aristas
                /\ recetas' = recetas
        /\ GuardaCambioReceta(p) =>
                /\ recetas'[ses[p].id].estado = ses[p].asignada.estado
                /\ <<recetas[ses[p].id].estado, recetas'[ses[p].id].estado>> \in aristas
                /\ ses'[p].pc = "rx_refrescar"
        /\ (RespondeCambioReceta(p) /\ resp'[p].resultado = "OK") =>
                /\ ses[p].pc = "rx_refrescar"
                /\ <<resp'[p].de, resp'[p].a>> \in aristas
                /\ recetas' = recetas

AristasRecetaConVencer ==
    {<<"01", "02">>, <<"01", "03">>, <<"01", "04">>, <<"02", "04">>, <<"03", "04">>}

\* C7: a transition of a prescription asked by its author succeeds
\* exactly for the five pairs of the graph Activa -> {Despachada, Vencida,
\* Anulada}, Despachada -> {Anulada}, Vencida -> {Anulada}; every other
\* pair is rejected as an invalid transition and the prescription is left
\* unchanged.
C7_TransicionesRecetaConVencer ==
    [][ConformeReceta(AristasRecetaConVencer)]_vars

\* C27: a crear_receta request with n medication lines (1 <= n <= 10) that
\* passed the checks of the service ends with the prescription persisted,
\* signed exactly when n <= 3 and unsigned when n is 4 or more.
C27_AutoFirmaPorLineas ==
    [][\A p \in Sesiones :
        (ses[p].op = "crear_receta" /\ ses'[p].pc = "libre") =>
            /\ resp'[p].resultado = "OK"
            /\ \E i \in 1..Len(recetas') :
                  /\ recetas'[i].numero = ses[p].numero
                  /\ recetas'[i].ndet = ses[p].ndet
                  /\ recetas'[i].firmada = (ses[p].ndet <= AutoFirmaMax)]_vars

\* A prescription of origin and patient `clave`, created on the day of the
\* clock, is Activa or Despachada
HayActivaDelDia(clave) ==
    \E i \in 1..Len(recetas) :
        /\ recetas[i].clave = clave
        /\ recetas[i].creada = DiaDe(ahora)
        /\ recetas[i].estado \in {"01", "02"}

C28_FirmaCoherente ==
    \A i \in 1..Len(recetas) :
        LET r == recetas[i]
        IN  /\ r.firmada <=> (r.fecha_firma # NULL /\ r.hash_firma # <<>>)
            /\ r.estado = "04" =>
                   (~r.firmada /\ r.fecha_firma = NULL /\ r.hash_firma = <<>>)

\* The author has annulled an Activa prescription and it was returned
\* annulled with no signature; the row a second request loaded before that
\* commit shows the prescription was signed
C28_Testigo ==
    /\ resp[1].op = "cambiar_estado_receta"
    /\ resp[1].resultado = "OK"
    /\ resp[1].de = "01" /\ resp[1].a = "04"
    /\ resp[1].fila = recetas[1]
    /\ recetas[1].estado = "04"
    /\ ~recetas[1].firmada
    /\ recetas[1].fecha_firma = NULL /\ recetas[1].hash_firma = <<>>
    /\ ses[2].pc = "rx_guardar"
    /\ ses[2].id = 1
    /\ ses[2].cargada.firmada
    /\ ses[2].cargada.fecha_firma # NULL /\ ses[2].cargada.hash_firma # <<>>

\* ----------------------------------------------------------------- notas

\* C9: every note is BORRADOR or FINALIZADA, and the only change of a
\* note's status by crear_nota, actualizar_nota or finalizar_nota, on the
\* note itself or on another, is BORRADOR -> FINALIZADA.
C9_EstadosNota ==
    [][\A i \in 1..Len(notas') :
        /\ notas'[i].estado \in {"BORRADOR", "FINALIZADA"}
        /\ (i <= Len(notas) /\ notas'[i].estado # notas[i].estado)
              => (notas[i].estado = "BORRADOR" /\ notas'[i].estado = "FINALIZADA")]_vars

\* C22: a note that has reached FINALIZADA is never removed from the
\* store, in particular not by eliminar_nota called by its author.
C22_FinalizadaNoSeBorra ==
    [][\A i \in 1..Len(notas) :
        notas[i].estado = "FINALIZADA" => notas'[i] # NotaEliminada]_vars

\* C29: in every reachable state a physician has at most one note in
\* BORRADOR per hospitalization, also when two crear_nota calls of the same
\* physician for the same hospitalization interleave.
C29_UnBorradorPorMedicoYHospitalizacion ==
    \A m \in Medicos, h \in Hospitalizaciones : NotasBorrador(m, h) <= 1

\* ------------------------------------------- the three documents together

\* The rejections of a request by a rule of the service
Rechazos == {"BusinessRuleException", "MedicoPermissionException"}

AristasOrden ==
    {<<"01", "02">>, <<"01", "03">>, <<"01", "05">>, <<"02", "03">>, <<"02", "05">>,
     <<"03", "04">>, <<"03", "05">>}

\* The step answers a cambiar_estado_orden request on an existing order
\* made by its author
RespondeCambioOrden(p) ==
    /\ resp'[p] # resp[p]
    /\ resp'[p].op = "cambiar_estado_orden"
    /\ resp'[p].id \in 1..Len(ordenes)
    /\ resp'[p].actor = ordenes[resp'[p].id].creado_por

\* C8: a transition of an order asked by its author succeeds exactly for
\* Pendiente->Programada, Pendiente->En proceso, Pendiente->Cancelada,
\* Programada->En proceso, Programada->Cancelada, En proceso->Completada
\* and En proceso->Cancelada; every other pair is rejected as an invalid
\* transition and the order keeps its status.
C8_TransicionesOrden ==
    [][\A p \in Sesiones : RespondeCambioOrden(p) =>
        LET r == resp'[p]
        IN  IF <<ordenes[r.id].estado, r.a>> \in AristasOrden
            THEN r.resultado = "OK" /\ ordenes'[r.id].estado = r.a
            ELSE r.resultado \in Rechazos /\ ordenes' = ordenes]_vars

\* The step answers a transition request on an existing document made by
\* somebody who is not its creator
RespondeAjeno(p) ==
    /\ resp'[p] # resp[p]
    /\ \/ /\ resp'[p].op = "cambiar_estado_receta"
          /\ resp'[p].id \in 1..Len(recetas)
          /\ resp'[p].actor # recetas[resp'[p].id].creado_por
       \/ /\ resp'[p].op = "cambiar_estado_orden"
          /\ resp'[p].id \in 1..Len(ordenes)
          /\ resp'[p].actor # ordenes[resp'[p].id].creado_por
       \/ /\ resp'[p].op = "finalizar_nota"
          /\ ExisteNota(resp'[p].id)
          /\ resp'[p].actor # notas[resp'[p].id].creado_por

\* C10: a transition of a prescription, an order or a note asked by
\* somebody other than its creator is rejected by the creator check and
\* the document keeps its status, whatever status was asked for.
C10_SoloElCreador ==
    [][\A p \in Sesiones : RespondeAjeno(p) =>
        /\ resp'[p].resultado \in Rechazos
        /\ resp'[p].etapa = "creador"
        /\ UNCHANGED varsDocs]_vars

\* The step answers request `op` on the existing document `id` of `docs`
RespondeEdicion(p, op, docs) ==
    /\ resp'[p] # resp[p]
    /\ resp'[p].op = op
    /\ resp'[p].id \in 1..Len(docs)

\* C11: a signed prescription cannot be edited.  A crear_receta request
\* with at most 3 lines that passed the checks of the service ends with the
\* prescription returned signed; every actualizar_receta on a prescription
\* that is signed, by its author while Activa included, is answered with
\* BusinessRuleException and writes nothing; and no step changes the
\* diagnosis or the expiry of a signed prescription.
C11_FirmadaNoSeEdita ==
    [][/\ \A p \in Sesiones :
            (/\ ses[p].op = "crear_receta"
             /\ ses[p].ndet <= AutoFirmaMax
             /\ ses'[p].pc = "libre")
            => (/\ resp'[p].resultado = "OK"
                /\ resp'[p].fila # <<>>
                /\ resp'[p].fila.firmada)
       /\ \A p \in Sesiones : RespondeEdicion(p, "actualizar_receta", recetas) =>
            (recetas[resp'[p].id].firmada =>
                /\ resp'[p].resultado = "BusinessRuleException"
                /\ recetas' = recetas)
       /\ \A i \in 1..Len(recetas) : recetas[i].firmada =>
            /\ recetas'[i].diagnostico_principal = recetas[i].diagnostico_principal
            /\ recetas'[i].fecha_vencimiento = recetas[i].fecha_vencimiento]_vars

\* C12: an update of a document that is not in the initial status of its
\* type (Activa for a prescription, Pendiente for an order, BORRADOR for a
\* note) is rejected by a rule of the service and the document is left as
\* it was.
C12_EdicionSoloEnEstadoInicial ==
    [][\A p \in Sesiones :
        /\ (/\ RespondeEdicion(p, "actualizar_receta", recetas)
            /\ recetas[resp'[p].id].estado # "01")
              => (resp'[p].resultado \in Rechazos /\ recetas' = recetas)
        /\ (/\ RespondeEdicion(p, "actualizar_orden", ordenes)
            /\ ordenes[resp'[p].id].estado # "01")
              => (resp'[p].resultado \in Rechazos /\ ordenes' = ordenes)
        /\ (/\ RespondeEdicion(p, "actualizar_nota", notas)
            /\ notas[resp'[p].id].estado # "BORRADOR")
              => (resp'[p].resultado \in Rechazos /\ notas' = notas)]_vars

\* C19: a create whose list of lines is empty or longer than the maximum
\* of its type (10 medication lines, 20 exams) is rejected by a rule of
\* the service and persists nothing; every persisted prescription has 1 to
\* 10 lines.
C19_CantidadDeLineas ==
    [][/\ \A m \in Medicos, n \in {0, MaxMedicamentos + 1},
             fv \in VencimientosEnviados :
            CrearReceta(1, m, 1, n, fv) =>
                /\ resp'[1].resultado \in Rechazos
                /\ ses'[1].pc = "libre"
                /\ UNCHANGED varsDocs
       /\ \A m \in Medicos, n \in {0, MaxExamenes + 1} :
            CrearOrden(1, m, n) =>
                /\ resp'[1].resultado \in Rechazos
                /\ UNCHANGED varsDocs
       /\ \A i \in 1..Len(recetas') : recetas'[i].ndet \in 1..MaxMedicamentos]_vars

\* C21: document numbers are sequential per type and day.  The k-th
\* prescription of a day carries sequence k, and a create of an order with
\* 1 to 20 exams persists the order with sequence k, the k-th of its
\* prefix and day.
C21_SecuenciaPorPrefijoYDia ==
    [][/\ \A i \in 1..Len(recetas') :
            recetas'[i].numero[3] =
                Cardinality({j \in 1..i : recetas'[j].creada = recetas'[i].creada})
       /\ \A m \in Medicos, n \in 1..MaxExamenes :
            CrearOrden(1, m, n) =>
                /\ resp'[1].resultado = "OK"
                /\ Len(ordenes') = Len(ordenes) + 1
                /\ ordenes'[Len(ordenes')].numero[3] =
                      Cardinality({j \in 1..Len(ordenes') :
                          /\ ordenes'[j].numero[1] = ordenes'[Len(ordenes')].numero[1]
                          /\ ordenes'[j].creada = DiaDe(ahora)})]_vars

\* The update operations
Actualizaciones == {"actualizar_receta", "actualizar_orden", "actualizar_nota"}

\* The step is a statement of an update request of session p
PasoDeActualizacion(p) ==
    \/ ses'[p] # ses[p] /\ (ses[p].op \in Actualizaciones \/ ses'[p].op \in Actualizaciones)
    \/ resp'[p] # resp[p] /\ resp'[p].op \in Actualizaciones

\* C24: the status of a document changes only through its transition
\* operation.  No statement of actualizar_receta, actualizar_orden or
\* actualizar_nota changes the status of a document, and every change of a
\* status is an edge of the graph of its type.
C24_EstadoSoloPorTransicion ==
    [][/\ \A p \in Sesiones : PasoDeActualizacion(p)
            => /\ \A i \in 1..Len(recetas) : recetas'[i].estado = recetas[i].estado
               /\ \A i \in 1..Len(ordenes) : ordenes'[i].estado = ordenes[i].estado
               /\ \A i \in 1..Len(notas) : notas'[i].estado = notas[i].estado
       /\ \A i \in 1..Len(recetas) : recetas'[i].estado # recetas[i].estado =>
            <<recetas[i].estado, recetas'[i].estado>> \in AristasRecetaConVencer
       /\ \A i \in 1..Len(ordenes) : ordenes'[i].estado # ordenes[i].estado =>
            <<ordenes[i].estado, ordenes'[i].estado>> \in AristasOrden
       /\ \A i \in 1..Len(notas) : notas'[i].estado # notas[i].estado =>
            <<notas[i].estado, notas'[i].estado>> = <<"BORRADOR", "FINALIZADA">>]_vars

====
